---- MODULE Spec2Model ----
(***************************************************************************)
(* NextRide backend (ltpitt/javascript-pebble-9292-nl, src/backend).       *)
(*                                                                         *)
(* The model covers the feed refresh of GTFSDatabase (gtfs_db.py), run by  *)
(* the API process (app.py, init_gtfs_data) and by the cron script         *)
(* (update_gtfs.py, main) on one data directory, the query handlers of     *)
(* app.py as far as their HTTP status goes, the retrying fetcher of        *)
(* GTFSParser (gtfs_parser.py), and the departures query of both classes   *)
(* and of the handler get_departures on stores built from small feeds.     *)
(*                                                                         *)
(* Files of the data directory:                                            *)
(*   archive  gtfs-nl.zip                                                  *)
(*   meta     gtfs-metadata.txt                                            *)
(*   db       gtfs.db, the SQLite file the directory entry names           *)
(* A connection is an open file: after gtfs.db is unlinked, a connection   *)
(* opened before keeps reading the file it opened (POSIX), which no other  *)
(* process can reach any more; such a connection holds what it reads.      *)
(* Time is in seconds; an mtime is the clock value of the last write.      *)
(***************************************************************************)
EXTENDS Integers, Sequences, FiniteSets, TLC

\* ------------------------------------------------------------------ bounds
\* Clock ticks in one behaviour (see TickTTL, TickSecond).
MaxTicks == 2
\* Feed versions the server may publish.
MaxFeed == 1
\* Rows of stop_times.txt in a feed.
MaxRows == 2
\* The largest limit a departures query is made with.
MaxLimit == 2
MaxStops == 2
MaxParses == 2

\* --------------------------------------------------------------- constants
CACHE_TTL_SECONDS == 86400
USER_AGENT == "NextRide-Pebble/1.0 (+https://davidenastri.it; contact@davidenastri.it)"
max_retries == 3

Procs == {"api", "cron"}
Feeds == 1..MaxFeed

\* Status codes the feed server may answer. 300 stands for the statuses below
\* 400 that are neither 200 nor 304, 404 and 503 for the error classes.
Statuses == {200, 300, 304, 404, 429, 503}
\* status 0: requests.get raised (no response); -1: no request made.
NoResponse == 0
NotFetched == -1

VARIABLES
    now,              \* wall clock, seconds
    archive,          \* gtfs-nl.zip: [exists, mtime, feed, good]
    meta,             \* gtfs-metadata.txt: [exists, etag, lastmod, downloaded]
    db,               \* gtfs.db: [state, feed, mtime]; state: none | blank | schema | full
    pc,               \* per process: position in init_gtfs_data / main
    conn,             \* per process: GTFSDatabase.conn: [open, live, state, feed]
    bconn,            \* per process: the local conn of _build_database: closed | live | unlinked
    should_download,  \* per process: load_data's local
    should_rebuild,   \* per process: load_data's local
    fetched,          \* per process: status of the response _download_gtfs got
    nreq,             \* per process: requests.get calls of this _download_gtfs
    loadErr,          \* per process: where the exception of this run was raised
    prevStore,        \* per process: history, the store at gtfs.db on entry to _build_database
    notModifiedAt,    \* history: clock value when a _download_gtfs last got 304; -1: never
    gtfs_parser,      \* app.py's global: FALSE for None
    resp,             \* app.py: the last handled request, [ep, status]
    pPc,              \* GTFSParser: position in load_data / _download_gtfs
    attempt,          \* GTFSParser._download_gtfs: loop variable
    sleeps,           \* GTFSParser._download_gtfs: time.sleep calls, in seconds
    pReq,             \* GTFSParser._download_gtfs: requests.get calls of this call
    pLast,            \* GTFSParser._download_gtfs: the last response, [status, complete]
    pTokens,          \* GTFSParser: [etag, last_modified] held in memory
    pHdr,             \* GTFSParser._download_gtfs: the headers of the last request
    pIndex,           \* GTFSParser.stop_times at one stop: per parse, the feed whose rows it appended
    store,            \* the tables of a built gtfs.db, and the feed rows in file order
    qry,              \* the last query call: its arguments, clock and result
    gtfs              \* the rows of the files in gtfs-nl.zip, where the rows are looked at

fsVars == <<archive, meta, db>>
procVars == <<pc, conn, bconn, should_download, should_rebuild, fetched, nreq,
              loadErr, prevStore, notModifiedAt, gtfs_parser, resp>>
parserVars == <<pPc, attempt, sleeps, pReq, pLast, pTokens, pHdr, pIndex>>
queryVars == <<store, qry, gtfs>>
vars == <<now, fsVars, procVars, parserVars, queryVars>>

NoArchive == [exists |-> FALSE, mtime |-> 0, feed |-> 0, good |-> FALSE]
NoMeta == [exists |-> FALSE, etag |-> 0, lastmod |-> 0, downloaded |-> FALSE]
NoDb == [state |-> "none", feed |-> 0, mtime |-> 0]
NoStore == [state |-> "none", feed |-> 0]
NoResp == [ep |-> "none", status |-> 0]
NoLast == [status |-> NotFetched, complete |-> TRUE]
NoTables == [stops |-> <<>>, stop_times |-> <<>>, trips |-> {}, routes |-> {},
             calendar_dates |-> {}]
NoQuery == [op |-> "none", stop_code |-> <<>>, limit |-> 0, time |-> <<>>,
            raised |-> FALSE, rows |-> <<>>]
NoHdr == [user_agent |-> "", if_modified_since |-> 0, if_none_match |-> 0]

\* What a reader finds at the path gtfs.db: no file (none), a file without
\* tables (blank), the tables without rows (schema), the loaded feed (full).
StoreAtPath == [state |-> db.state, feed |-> db.feed]

\* Connections. A live connection reads gtfs.db as it is now; one whose file
\* was unlinked reads the store it held at that moment.
Closed == [open |-> FALSE, live |-> FALSE, state |-> "none", feed |-> 0]
Live == [open |-> TRUE, live |-> TRUE, state |-> "none", feed |-> 0]
Unlinked(st) == [open |-> TRUE, live |-> FALSE, state |-> st.state, feed |-> st.feed]

StoreOf(c) ==
    IF ~c.open THEN NoStore
    ELSE IF c.live THEN StoreAtPath
    ELSE [state |-> c.state, feed |-> c.feed]

\* ------------------------------------------------------------ feed server
\* A response: status (NoResponse when requests.get raised), and for a body:
\* the feed version, whether the feed is well-formed, whether the stream
\* completed, which revalidation headers it carries; msg429: whether the
\* text of a raised exception contains "429".
NoBody(s, m) == [status |-> s, feed |-> 0, good |-> FALSE, complete |-> TRUE,
                 etag |-> FALSE, lastmod |-> FALSE, msg429 |-> m]

\* A 304 answers a conditional request only.
Responses(conditional) ==
    [status : {200}, feed : Feeds, good : BOOLEAN, complete : BOOLEAN,
     etag : BOOLEAN, lastmod : BOOLEAN, msg429 : BOOLEAN]
    \cup {NoBody(s, FALSE) : s \in {300, 404, 429, 503}}
    \cup {NoBody(NoResponse, m) : m \in BOOLEAN}
    \cup (IF conditional THEN {NoBody(304, FALSE)} ELSE {})

\* ------------------------------------------------------- freshness checks
\* GTFSDatabase._is_cache_expired / GTFSParser._is_cache_expired (same code).
_is_cache_expired ==
    IF ~archive.exists THEN TRUE
    ELSE (now - archive.mtime) > CACHE_TTL_SECONDS

\* GTFSDatabase._is_db_outdated. self.gtfs_file.stat() raises when the archive
\* is missing while gtfs.db exists.
db_exists == db.state # "none"

_is_db_outdated_raises == db_exists /\ ~archive.exists

\* A slip in the comparison: a database as old as the archive counts as outdated.
_is_db_outdated_or_equal ==
    IF ~db_exists THEN TRUE
    ELSE archive.mtime >= db.mtime

_is_db_outdated ==
    IF ~db_exists THEN TRUE
    ELSE archive.mtime > db.mtime

\* ------------------------------------------- GTFSDatabase._download_gtfs
\* Conditional headers come from the metadata file; an empty value is falsy.
Db_conditional == meta.exists /\ (meta.etag # 0 \/ meta.lastmod # 0)

\* Whether the call raises on response r.
Db_download_raises(r) ==
    IF r.status = NoResponse THEN TRUE
    ELSE IF r.status = 304 THEN FALSE
    ELSE IF r.status # 200 THEN TRUE
    ELSE ~r.complete

\* The archive after the call: open(..., 'wb') truncates, the chunks follow.
Db_download_archive(r) ==
    IF r.status = 200
    THEN [exists |-> TRUE, mtime |-> now, feed |-> r.feed, good |-> r.good /\ r.complete]
    ELSE archive

\* The metadata file after the call: rewritten after a complete body only.
Db_download_meta(r) ==
    IF r.status = 200 /\ r.complete
    THEN [exists |-> TRUE,
          etag |-> IF r.etag THEN r.feed ELSE 0,
          lastmod |-> IF r.lastmod THEN r.feed ELSE 0,
          downloaded |-> FALSE]
    ELSE meta

\* ------------------------------------------------------------- processes
\* An exception leaves init_gtfs_data through its except (the API serves on),
\* and main through its except (exit code 1).
AfterRun(p) == IF p = "api" THEN "serving" ELSE "done"

Raise(p, where) ==
    /\ pc' = [pc EXCEPT ![p] = AfterRun(p)]
    /\ loadErr' = [loadErr EXCEPT ![p] = where]

ResetRun(p) ==
    /\ conn' = [conn EXCEPT ![p] = Closed]
    /\ bconn' = [bconn EXCEPT ![p] = "closed"]
    /\ should_download' = [should_download EXCEPT ![p] = FALSE]
    /\ should_rebuild' = [should_rebuild EXCEPT ![p] = FALSE]
    /\ fetched' = [fetched EXCEPT ![p] = NotFetched]
    /\ nreq' = [nreq EXCEPT ![p] = 0]
    /\ prevStore' = [prevStore EXCEPT ![p] = NoStore]

\* app.py: init_gtfs_data at module import (process start or restart).
\* GTFSDatabase() may raise in mkdir; gtfs_parser then stays None.
init_gtfs_data ==
    /\ pc["api"] \in {"idle", "serving"}
    /\ ResetRun("api")
    /\ resp' = NoResp
    /\ \E ctor_ok \in BOOLEAN :
         /\ gtfs_parser' = ctor_ok
         /\ pc' = [pc EXCEPT !["api"] = IF ctor_ok THEN "load" ELSE "serving"]
         /\ loadErr' = [loadErr EXCEPT !["api"] = IF ctor_ok THEN "none" ELSE "init"]
    /\ UNCHANGED <<now, fsVars, notModifiedAt, parserVars, queryVars>>

\* update_gtfs.py: main up to the call of load_data.
main ==
    /\ pc["cron"] \in {"idle", "done"}
    /\ ResetRun("cron")
    /\ LET needs_download == ~archive.exists \/ _is_cache_expired
           needs_rebuild == ~db_exists \/ _is_db_outdated
       IN IF _is_db_outdated_raises
          THEN Raise("cron", "stat")
          ELSE /\ pc' = [pc EXCEPT !["cron"] =
                           IF ~needs_download /\ ~needs_rebuild THEN "done" ELSE "load"]
               /\ loadErr' = [loadErr EXCEPT !["cron"] = "none"]
    /\ UNCHANGED <<now, fsVars, notModifiedAt, gtfs_parser, resp, parserVars, queryVars>>

\* GTFSDatabase.load_data, lines 43-52: the download decision and _download_gtfs.
load_data_download(p) ==
    /\ pc[p] = "load"
    /\ LET sd == ~archive.exists \/ _is_cache_expired
       IN /\ should_download' = [should_download EXCEPT ![p] = sd]
          /\ IF ~sd
             THEN /\ pc' = [pc EXCEPT ![p] = "checkdb"]
                  /\ UNCHANGED <<archive, meta, fetched, nreq, loadErr, notModifiedAt>>
             ELSE \E r \in Responses(Db_conditional) :
                    /\ fetched' = [fetched EXCEPT ![p] = r.status]
                    /\ notModifiedAt' = IF r.status = 304 THEN now ELSE notModifiedAt
                    /\ nreq' = [nreq EXCEPT ![p] = 1]
                    /\ archive' = Db_download_archive(r)
                    /\ meta' = Db_download_meta(r)
                    /\ IF Db_download_raises(r)
                       THEN Raise(p, "download")
                       ELSE /\ pc' = [pc EXCEPT ![p] = "checkdb"]
                            /\ UNCHANGED loadErr
    /\ UNCHANGED <<now, db, conn, bconn, should_rebuild, prevStore,
                   gtfs_parser, resp, parserVars, queryVars>>

\* GTFSDatabase.load_data, lines 55-64: the rebuild decision.
load_data_check_db(p) ==
    /\ pc[p] = "checkdb"
    /\ IF _is_db_outdated_raises
       THEN /\ Raise(p, "stat")
            /\ UNCHANGED should_rebuild
       ELSE LET sr == ~db_exists \/ _is_db_outdated
            IN /\ should_rebuild' = [should_rebuild EXCEPT ![p] = sr]
               /\ pc' = [pc EXCEPT ![p] = IF sr THEN "unlink" ELSE "connect"]
               /\ UNCHANGED loadErr
    /\ UNCHANGED <<now, fsVars, conn, bconn, should_download, fetched, nreq,
                   prevStore, notModifiedAt, gtfs_parser, resp, parserVars, queryVars>>

\* _build_database, lines 79-80: remove the old database. The connections
\* open on it keep the unlinked file, whose content no longer changes for
\* them.
build_unlink(p) ==
    /\ pc[p] = "unlink"
    /\ prevStore' = [prevStore EXCEPT ![p] = StoreAtPath]
    /\ db' = NoDb
    /\ conn' = [q \in Procs |-> IF conn[q].live THEN Unlinked(StoreAtPath) ELSE conn[q]]
    /\ bconn' = [q \in Procs |-> IF bconn[q] = "live" THEN "unlinked" ELSE bconn[q]]
    /\ pc' = [pc EXCEPT ![p] = "create"]
    /\ UNCHANGED <<now, archive, meta, should_download, should_rebuild, fetched,
                   nreq, loadErr, notModifiedAt, gtfs_parser, resp, parserVars, queryVars>>

\* _build_database, lines 83-147: sqlite3.connect creates the file when there is
\* none; each CREATE TABLE / CREATE INDEX commits on its own. CREATE TABLE
\* fails on a file that already holds the tables.
build_create(p) ==
    /\ pc[p] = "create"
    /\ IF db.state \in {"none", "blank"}
       THEN /\ db' = [state |-> "schema", feed |-> 0, mtime |-> now]
            /\ bconn' = [bconn EXCEPT ![p] = "live"]
            /\ pc' = [pc EXCEPT ![p] = "fill"]
            /\ UNCHANGED loadErr
       ELSE /\ Raise(p, "build")
            /\ UNCHANGED <<db, bconn>>
    /\ UNCHANGED <<now, archive, meta, conn, should_download, should_rebuild,
                   fetched, nreq, prevStore, notModifiedAt, gtfs_parser, resp, parserVars, queryVars>>

\* _build_database, lines 150-314: the five loads run in one transaction, made
\* visible by conn.commit(). An archive that is missing, truncated or
\* malformed raises in between; the transaction is rolled back. A commit into
\* a file that another build has unlinked reaches no reader.
build_fill(p) ==
    /\ pc[p] = "fill"
    /\ bconn' = [bconn EXCEPT ![p] = "closed"]
    /\ IF archive.exists /\ archive.good
       THEN /\ db' = IF bconn[p] = "live"
                     THEN [state |-> "full", feed |-> archive.feed, mtime |-> now]
                     ELSE db
            /\ pc' = [pc EXCEPT ![p] = "connect"]
            /\ UNCHANGED loadErr
       ELSE /\ Raise(p, "build")
            /\ UNCHANGED db
    /\ UNCHANGED <<now, archive, meta, conn, should_download, should_rebuild,
                   fetched, nreq, prevStore, notModifiedAt, gtfs_parser, resp, parserVars, queryVars>>

\* GTFSDatabase._connect: sqlite3.connect opens gtfs.db, creating an empty file
\* when there is none.
_connect(p) ==
    /\ pc[p] = "connect"
    /\ db' = IF db_exists THEN db ELSE [state |-> "blank", feed |-> 0, mtime |-> now]
    /\ conn' = [conn EXCEPT ![p] = Live]
    /\ pc' = [pc EXCEPT ![p] = "ready"]
    /\ UNCHANGED <<now, archive, meta, bconn, should_download, should_rebuild,
                   fetched, nreq, loadErr, prevStore, notModifiedAt, gtfs_parser, resp, parserVars, queryVars>>

\* GTFSDatabase.search_stops, get_scheduled_departures, get_stats: on a None
\* conn and on a file without tables the query raises.
query_raises(c) == StoreOf(c).state \in {"none", "blank"}

\* After load_data returned. init_gtfs_data logs get_stats() inside its try;
\* main calls get_stats() and exits, which closes the connection.
after_load(p) ==
    /\ pc[p] = "ready"
    /\ pc' = [pc EXCEPT ![p] = AfterRun(p)]
    /\ loadErr' = [loadErr EXCEPT ![p] = IF query_raises(conn[p]) THEN "stats" ELSE "none"]
    /\ conn' = [conn EXCEPT ![p] = IF p = "cron" THEN Closed ELSE conn[p]]
    /\ UNCHANGED <<now, fsVars, bconn, should_download, should_rebuild, fetched,
                   nreq, prevStore, notModifiedAt, gtfs_parser, resp, parserVars, queryVars>>

\* ------------------------------------------------------ app.py handlers
\* The status each handler answers to a request with valid parameters, from
\* the state of the API process. GTFSDatabase has no find_nearby_stops; an
\* exception of a query method is turned into 500 by the handler's except.
search_status ==
    IF ~gtfs_parser THEN 503
    ELSE IF query_raises(conn["api"]) THEN 500
    ELSE 200

nearby_status ==
    IF ~gtfs_parser THEN 503
    ELSE 500

\* found: whether the stop resolves and has departures that qualify now.
departures_status(found) ==
    IF ~gtfs_parser THEN 503
    ELSE IF query_raises(conn["api"]) THEN 500
    ELSE IF StoreOf(conn["api"]).state = "full" /\ found THEN 200
    ELSE 404

Handle(ep, status) ==
    /\ pc["api"] = "serving"
    /\ resp' = [ep |-> ep, status |-> status]
    /\ UNCHANGED <<now, fsVars, pc, conn, bconn, should_download, should_rebuild,
                   fetched, nreq, loadErr, prevStore, notModifiedAt, gtfs_parser, parserVars, queryVars>>

search_stops == Handle("search", search_status)

nearby_stops == Handle("nearby", nearby_status)

get_departures == \E found \in BOOLEAN : Handle("departures", departures_status(found))

\* ------------------------------------------- GTFSParser._download_gtfs
\* GTFSParser._load_metadata: the tokens of the metadata file.
Parser_load_metadata ==
    IF meta.exists THEN [etag |-> meta.etag, last_modified |-> meta.lastmod]
    ELSE [etag |-> 0, last_modified |-> 0]

Parser_conditional == pTokens.etag # 0 \/ pTokens.last_modified # 0

\* A slip in the headers: the entity tag header is set from the last-modified
\* value.
Parser_headers_mixed ==
    [user_agent |-> USER_AGENT,
     if_modified_since |-> pTokens.last_modified,
     if_none_match |-> pTokens.last_modified]

\* Lines 128-136: the headers of one request, built anew in every pass of the
\* loop. A header with value 0 is not sent (the token is None or empty).
Parser_headers ==
    [user_agent |-> USER_AGENT,
     if_modified_since |-> pTokens.last_modified,
     if_none_match |-> pTokens.etag]

\* A slip in the backoff: the wait does not grow with the attempt.
Parser_wait_minutes_flat(a) == 5

\* wait_minutes = (attempt + 1) * 5
Parser_wait_minutes(a) == (a + 1) * 5

\* An exception raised inside the try (requests.get, or the body stream) is
\* retried only while attempts remain and its text contains "429".
Parser_on_exception(r, a) ==
    IF a < max_retries /\ r.msg429 THEN "retry" ELSE "raise"

\* How one pass of the loop ends on response r: return | retry | raise.
\* raise_for_status raises for the statuses 400..599 only.
Parser_outcome(r, a) ==
    IF r.status = NoResponse THEN Parser_on_exception(r, a)
    ELSE IF r.status = 304 THEN "return"
    ELSE IF r.status = 429 THEN (IF a < max_retries THEN "retry" ELSE "raise")
    ELSE IF r.status >= 400 THEN "raise"
    ELSE IF r.complete THEN "return"
    ELSE Parser_on_exception(r, a)

\* Whether the pass writes the archive: every status that passes raise_for_status.
Parser_writes_body(r) == r.status \notin {NoResponse, 304, 429} /\ r.status < 400

Parser_download_archive(r) ==
    IF Parser_writes_body(r)
    THEN [exists |-> TRUE, mtime |-> now, feed |-> r.feed, good |-> r.good /\ r.complete]
    ELSE archive

\* GTFSParser._save_metadata, after a complete body.
Parser_download_meta(r) ==
    IF Parser_writes_body(r) /\ r.complete
    THEN [exists |-> TRUE,
          etag |-> IF r.etag THEN r.feed ELSE 0,
          lastmod |-> IF r.lastmod THEN r.feed ELSE 0,
          downloaded |-> TRUE]
    ELSE meta

\* _save_metadata replaces a token held in memory only by a non-empty one.
Parser_download_tokens(r) ==
    IF Parser_writes_body(r) /\ r.complete
    THEN [etag |-> IF r.etag THEN r.feed ELSE pTokens.etag,
          last_modified |-> IF r.lastmod THEN r.feed ELSE pTokens.last_modified]
    ELSE pTokens

\* GTFSParser.__init__: a new instance (a process start).
GTFSParser_init ==
    /\ pPc \in {"idle", "ok", "loaded", "error"}
    /\ pTokens' = Parser_load_metadata
    /\ pPc' = "created"
    /\ attempt' = 0
    /\ sleeps' = <<>>
    /\ pReq' = 0
    /\ pLast' = NoLast
    /\ pHdr' = NoHdr
    /\ pIndex' = <<>>
    /\ UNCHANGED <<now, fsVars, procVars, queryVars>>

\* GTFSParser.load_data, lines 86-95: the download decision. An instance is
\* followed through MaxParses parses.
GTFSParser_load_data ==
    /\ pPc \in {"created", "loaded", "error"}
    /\ Len(pIndex) < MaxParses
    /\ pPc' = IF ~archive.exists \/ _is_cache_expired THEN "fetch" ELSE "ok"
    /\ attempt' = 0
    /\ sleeps' = <<>>
    /\ pReq' = 0
    /\ pLast' = NoLast
    /\ UNCHANGED <<now, fsVars, procVars, pTokens, pHdr, pIndex, queryVars>>

\* One pass of the loop of GTFSParser._download_gtfs: the request, the
\* handling of its response, and the sleep before a retry.
GTFSParser_download_attempt ==
    /\ pPc = "fetch"
    /\ \E r \in Responses(Parser_conditional) :
         /\ pReq' = pReq + 1
         /\ pHdr' = Parser_headers
         /\ pLast' = [status |-> r.status, complete |-> r.complete]
         /\ archive' = Parser_download_archive(r)
         /\ meta' = Parser_download_meta(r)
         /\ pTokens' = Parser_download_tokens(r)
         /\ LET out == Parser_outcome(r, attempt)
            IN IF out = "retry"
               THEN /\ sleeps' = Append(sleeps, Parser_wait_minutes(attempt) * 60)
                    /\ attempt' = attempt + 1
                    /\ pPc' = "fetch"
               ELSE /\ pPc' = IF out = "return" THEN "ok" ELSE "error"
                    /\ UNCHANGED <<sleeps, attempt>>
    /\ UNCHANGED <<now, db, procVars, pIndex, queryVars>>

\* GTFSParser.load_data, lines 97-104, after the download decision or the
\* return of _download_gtfs: _parse_stops raises on an archive it cannot read;
\* _parse_stop_times appends the rows it reads to the lists of self.stop_times
\* (lines 268-276), which nothing empties.
GTFSParser_parse ==
    /\ pPc = "ok"
    /\ IF archive.good
       THEN pPc' = "loaded" /\ pIndex' = Append(pIndex, archive.feed)
       ELSE pPc' = "error" /\ pIndex' = pIndex
    /\ UNCHANGED <<now, fsVars, procVars, attempt, sleeps, pReq, pLast, pTokens, pHdr,
                   queryVars>>

\* ------------------------------------------------------------------ text
\* A text is the sequence of its character codes: ' ' 32, '-' 45, '0'..'9'
\* 48..57, ':' 58, 'A'..'Z' 65..90, '_' 95, 'a'..'z' 97..122.
lower(t) == [i \in DOMAIN t |-> IF t[i] >= 65 /\ t[i] <= 90 THEN t[i] + 32 ELSE t[i]]

RECURSIVE lstrip(_)
lstrip(t) == IF t # <<>> /\ Head(t) = 32 THEN lstrip(Tail(t)) ELSE t

RECURSIVE rstrip(_)
rstrip(t) == IF t # <<>> /\ t[Len(t)] = 32 THEN rstrip(SubSeq(t, 1, Len(t) - 1)) ELSE t

strip(t) == rstrip(lstrip(t))

isdigit(t) == t # <<>> /\ \A i \in DOMAIN t : t[i] \in 48..57

isalnum(t) ==
    t # <<>> /\ \A i \in DOMAIN t : t[i] \in (48..57) \cup (65..90) \cup (97..122)

\* str.replace(c, '')
replace_char(t, c) == SelectSeq(t, LAMBDA x : x # c)

\* The order of TEXT values in SQLite (BINARY collation) and of str in Python:
\* by the first differing character, a proper prefix first.
TextLess(a, b) ==
    LET n == IF Len(a) < Len(b) THEN Len(a) ELSE Len(b)
        diff == {i \in 1..n : a[i] # b[i]}
    IN IF diff = {} THEN Len(a) < Len(b)
       ELSE LET i == CHOOSE k \in diff : \A j \in diff : k <= j
            IN a[i] < b[i]

TwoDigits(n) == <<48 + (n \div 10), 48 + (n % 10)>>

\* now.strftime('%H:%M:%S')
strftime_HMS(h, m, sec) == TwoDigits(h) \o <<58>> \o TwoDigits(m) \o <<58>> \o TwoDigits(sec)

\* A departure_time of stop_times.txt: HH:MM:SS, or H:MM:SS for an hour
\* below 10 written without its leading zero; hours run past 24 for trips
\* that end after midnight.
FeedTime(h, m, sec, padded) ==
    (IF h >= 10 \/ padded THEN TwoDigits(h) ELSE <<48 + h>>)
        \o <<58>> \o TwoDigits(m) \o <<58>> \o TwoDigits(sec)

\* ------------------------------------------------------- feed and tables
\* The feeds the stores are built from. stops.txt has two stops; the public
\* code of the first is written "A " or "1". routes.txt has one route.
\* trips.txt has trip T1 and a second trip T2 that runs on the same or another
\* service, on the same or a missing route, under the same or another short
\* name. calendar_dates.txt adds or removes the services A and B today or
\* yesterday. stop_times.txt has up to MaxRows rows, of T1, T2 or a trip T3
\* that trips.txt lacks.
Today == "20261104"
Yesterday == "20261103"

FeedStopCodes == {<<65, 32>>, <<49>>}

FeedStops(code) ==
    <<[stop_id |-> "S1", stop_code |-> code, stop_name |-> "Haarlem"],
      [stop_id |-> "S2", stop_code |-> <<98>>, stop_name |-> "Spaarnwoude"]>>

FeedRoutes ==
    {[route_id |-> "R1", route_short_name |-> "300",
      route_long_name |-> "Haarlem - Schiphol", route_type |-> 3]}

FeedTrip(id, service, route, short) ==
    [trip_id |-> id, service_id |-> service, route_id |-> route,
     trip_headsign |-> "Schiphol", trip_short_name |-> short]

FeedTrips ==
    {{FeedTrip("T1", "A", "R1", "n1"), t2} :
        t2 \in {FeedTrip("T2", "A", "R1", "n2"), FeedTrip("T2", "B", "R1", "n1"),
                FeedTrip("T2", "A", "R9", "n1"), FeedTrip("T2", "A", "R1", "n1")}}

CalendarDate(service, date, type) ==
    [service_id |-> service, date |-> date, exception_type |-> type]

FeedCalendarDates ==
    {{CalendarDate("A", Today, 1)},
     {CalendarDate("A", Today, 1), CalendarDate("B", Today, 1)},
     {CalendarDate("A", Today, 2), CalendarDate("B", Today, 1)},
     {CalendarDate("A", Yesterday, 1)}}

FeedTimes == {FeedTime(9, 5, 0, FALSE), FeedTime(10, 30, 0, TRUE), FeedTime(25, 10, 0, TRUE)}

FeedStopTimeRows ==
    {[trip_id |-> t, arrival_time |-> d, departure_time |-> d, stop_id |-> "S1"] :
        t \in {"T1", "T2", "T3"}, d \in FeedTimes}
    \cup {[trip_id |-> "T1", arrival_time |-> FeedTime(10, 30, 0, TRUE),
           departure_time |-> FeedTime(10, 30, 0, TRUE), stop_id |-> "S2"]}

FeedStopTimes == UNION {[1..n -> FeedStopTimeRows] : n \in 0..MaxRows}

GtfsFeeds ==
    [stops : {FeedStops(c) : c \in FeedStopCodes}, stop_times : FeedStopTimes,
     trips : FeedTrips, routes : {FeedRoutes}, calendar_dates : FeedCalendarDates]

\* _build_database, lines 150-311 (and GTFSParser._parse_stops): the rows are
\* stored as read, but for the stop code, which is trimmed and lower-cased.
load_feed(feed) ==
    [feed EXCEPT !.stops =
        [i \in DOMAIN feed.stops |->
            [feed.stops[i] EXCEPT !.stop_code = lower(strip(@))]]]

\* ------------------------------------ GTFSDatabase.get_scheduled_departures
\* Lines 423-432: SELECT stop_id FROM stops WHERE stop_code = ? LIMIT 1.
\* The stops the lookup may return; which one of several is not determined.
resolve_stop(stop_code) ==
    {store.stops[i].stop_id :
        i \in {j \in DOMAIN store.stops : store.stops[j].stop_code = stop_code}}

\* A slip in the WHERE clause: the exception type is not looked at.
Joined_any_exception(stop_id, current_time, current_date) ==
    {j \in (DOMAIN store.stop_times) \X store.trips \X store.routes \X store.calendar_dates :
        /\ store.stop_times[j[1]].trip_id = j[2].trip_id
        /\ j[2].route_id = j[3].route_id
        /\ j[2].service_id = j[4].service_id
        /\ store.stop_times[j[1]].stop_id = stop_id
        /\ ~TextLess(store.stop_times[j[1]].departure_time, current_time)
        /\ j[4].date = current_date}

\* Lines 450-460: the joins and the WHERE clause. departure_time is a TEXT
\* column and current_time a str, so >= compares them as text.
Joined(stop_id, current_time, current_date) ==
    {j \in (DOMAIN store.stop_times) \X store.trips \X store.routes \X store.calendar_dates :
        /\ store.stop_times[j[1]].trip_id = j[2].trip_id
        /\ j[2].route_id = j[3].route_id
        /\ j[2].service_id = j[4].service_id
        /\ store.stop_times[j[1]].stop_id = stop_id
        /\ ~TextLess(store.stop_times[j[1]].departure_time, current_time)
        /\ j[4].date = current_date
        /\ j[4].exception_type = 1}

\* Lines 442-449: the selected columns of a joined row.
Selected(j) ==
    [departure_time |-> store.stop_times[j[1]].departure_time,
     arrival_time |-> store.stop_times[j[1]].arrival_time,
     route_short_name |-> j[3].route_short_name,
     route_long_name |-> j[3].route_long_name,
     route_type |-> j[3].route_type,
     trip_headsign |-> j[2].trip_headsign,
     trip_short_name |-> j[2].trip_short_name]

\* SELECT DISTINCT
Distinct(joined) == {Selected(j) : j \in joined}

\* ORDER BY st.departure_time LIMIT ?: the sequences the statement may return.
\* The order of rows with equal departure_time is not determined.
OrderByLimit(rows, limit) ==
    LET k == IF limit < Cardinality(rows) THEN limit ELSE Cardinality(rows)
    IN {r \in [1..k -> rows] :
          /\ \A i, j \in 1..k :
                i < j => (r[i] # r[j] /\ ~TextLess(r[j].departure_time, r[i].departure_time))
          /\ \A x \in rows \ {r[i] : i \in 1..k} :
                \A i \in 1..k : ~TextLess(x.departure_time, r[i].departure_time)}

\* The outcomes of get_scheduled_departures(stop_code, limit) on the API's
\* connection at clock time current_time: it raises, or returns rows.
Db_get_scheduled_departures(stop_code, limit, current_time) ==
    IF query_raises(conn["api"])
    THEN {[raised |-> TRUE, rows |-> <<>>]}
    ELSE IF resolve_stop(stop_code) = {}
    THEN {[raised |-> FALSE, rows |-> <<>>]}
    ELSE {[raised |-> FALSE, rows |-> r] :
            r \in UNION {OrderByLimit(Distinct(Joined(id, current_time, Today)), limit) :
                           id \in resolve_stop(stop_code)}}

\* ------------------------------------- GTFSParser.get_scheduled_departures
\* The in-memory index holds the rows of stop_times.txt per stop code, in file
\* order (_parse_stop_times); the call returns the first `limit` of them.
Parser_get_scheduled_departures(stop_code, limit) ==
    LET code == lower(stop_code)
        at_stop == SelectSeq(store.stop_times,
                       LAMBDA row : \E i \in DOMAIN store.stops :
                           /\ store.stops[i].stop_id = row.stop_id
                           /\ store.stops[i].stop_code = code)
        k == IF limit < Len(at_stop) THEN limit ELSE Len(at_stop)
    IN [i \in 1..k |->
           [departure_time |-> at_stop[i].departure_time, trip_id |-> at_stop[i].trip_id]]

\* ------------------------------------------------------------- orderings
\* The sequences that hold the members of set rows in an order that never
\* puts a row after one that the relation before (a set of pairs) puts it
\* before.
OrderedBy(rows, before) ==
    {r \in [1..Cardinality(rows) -> rows] :
        /\ \A i, j \in DOMAIN r : i < j => r[i] # r[j]
        /\ \A i, j \in DOMAIN r : i < j => <<r[j], r[i]>> \notin before}

\* The pairs of elements of seq.
Pairs(seq) == {seq[i] : i \in DOMAIN seq} \X {seq[i] : i \in DOMAIN seq}

\* list.sort(key=...): the order of the key; elements of equal key keep the
\* order they had.
StableSort(seq, before) ==
    LET RECURSIVE insert(_, _)
        insert(sorted, x) ==
            IF sorted = <<>> THEN <<x>>
            ELSE IF <<x, Head(sorted)>> \in before THEN <<x>> \o sorted
            ELSE <<Head(sorted)>> \o insert(Tail(sorted), x)
        RECURSIVE sort(_)
        sort(k) == IF k = 0 THEN <<>> ELSE insert(sort(k - 1), seq[k])
    IN sort(Len(seq))

FirstOf(seq, limit) == SubSeq(seq, 1, IF limit < Len(seq) THEN limit ELSE Len(seq))

\* ---------------------------------------------------- app.py get_departures
\* What the lookup at v0.ovapi.nl yields for a stop area code: the timing
\* point codes it resolves to, one or several; <<>> when the request fails,
\* the status is not 200, the code is unknown or it has no timing points.
OvOutcomes == {<<>>, <<(<<49>>)>>, <<(<<49>>), (<<98>>)>>}

\* A slip in the status: an empty result is answered as a failure.
get_departures_status_empty_fails(raised, rows) ==
    IF ~gtfs_parser THEN 503
    ELSE IF raised THEN 500
    ELSE IF rows = <<>> THEN 500
    ELSE 200

\* The status of the answer: lines 231-232, 325-327, 289-295 and 309-315.
get_departures_status(raised, rows) ==
    IF ~gtfs_parser THEN 503
    ELSE IF raised THEN 500
    ELSE IF rows = <<>> THEN 404
    ELSE 200

\* Lines 235-238: the stop code of the path, trimmed and lower-cased, must be
\* alphanumeric apart from '_' and '-'.
valid_stop_code(stop_code) == isalnum(replace_char(replace_char(stop_code, 95), 45))

\* Lines 272-276: get_scheduled_departures(numeric_code, limit) for each timing
\* point in turn, the records of all of them in one list; an exception of
\* one call leaves the loop.
RECURSIVE timing_point_departures(_, _, _)
timing_point_departures(codes, limit, current_time) ==
    IF codes = <<>>
    THEN {[raised |-> FALSE, rows |-> <<>>]}
    ELSE {IF first.raised \/ rest.raised
          THEN [raised |-> TRUE, rows |-> <<>>]
          ELSE [raised |-> FALSE, rows |-> first.rows \o rest.rows] :
            first \in Db_get_scheduled_departures(codes[1], limit, current_time),
            rest \in timing_point_departures(Tail(codes), limit, current_time)}

\* key=lambda x: x['departure_time'], the text of the record.
ByDepartureTime(rows) ==
    {ab \in Pairs(rows) : TextLess(ab[1].departure_time, ab[2].departure_time)}

\* Lines 279-287: all_departures.sort(...) and all_departures[:limit].
merge_departures(all_departures, limit) ==
    FirstOf(StableSort(all_departures, ByDepartureTime(all_departures)), limit)

\* Lines 251-266: the timing point codes the handler goes on with; none for a
\* numeric stop code and when the lookup yields none.
resolved_codes(raw, ov) == IF isdigit(lower(strip(raw))) THEN <<>> ELSE ov

\* The outcomes of the handler for path parameter raw and a valid limit:
\* [status, raised, rows]. A stop code that is not numeric is first resolved
\* at v0.ovapi.nl; when that yields timing points the answer comes from them
\* alone, otherwise from the direct lookup.
get_departures_outcomes(raw, limit, current_time, ov) ==
    LET stop_code == lower(strip(raw))
        numeric_stop_codes == resolved_codes(raw, ov)
        outs == IF numeric_stop_codes # <<>>
                THEN {[raised |-> all.raised, rows |-> merge_departures(all.rows, limit)] :
                        all \in timing_point_departures(numeric_stop_codes, limit, current_time)}
                ELSE Db_get_scheduled_departures(stop_code, limit, current_time)
    IN IF ~gtfs_parser
       THEN {[status |-> 503, raised |-> FALSE, rows |-> <<>>]}
       ELSE IF ~valid_stop_code(stop_code)
       THEN {[status |-> 400, raised |-> FALSE, rows |-> <<>>]}
       ELSE {[status |-> get_departures_status(out.raised, out.rows),
              raised |-> out.raised, rows |-> out.rows] : out \in outs}

\* ------------------------------------------------------- query actions
QueryInputs == {<<97>>, <<65>>, <<32, 97>>, <<49>>, <<122>>, <<45>>}
QueryClocks == {strftime_HMS(9, 0, 0), strftime_HMS(10, 0, 0), strftime_HMS(23, 59, 30)}

\* The calls only read: the store is the same before and after, so a behaviour
\* holds one call, and qry records it.
NoCallYet == qry = NoQuery

QueryUnchanged ==
    UNCHANGED <<now, fsVars, pc, conn, bconn, should_download, should_rebuild,
                fetched, nreq, loadErr, prevStore, notModifiedAt, gtfs_parser,
                parserVars, store, gtfs>>

\* A call of GTFSDatabase.get_scheduled_departures on the API's instance.
get_scheduled_departures ==
    /\ NoCallYet
    /\ gtfs_parser
    /\ \E stop_code \in QueryInputs, limit \in 1..MaxLimit, current_time \in QueryClocks :
         \E out \in Db_get_scheduled_departures(stop_code, limit, current_time) :
            qry' = [op |-> "db", stop_code |-> stop_code, limit |-> limit,
                    time |-> current_time, raised |-> out.raised, rows |-> out.rows]
    /\ resp' = NoResp
    /\ QueryUnchanged

\* A call of GTFSParser.get_scheduled_departures on an instance that parsed the
\* same feed.
GTFSParser_get_scheduled_departures ==
    /\ NoCallYet
    /\ \E stop_code \in QueryInputs, limit \in 1..MaxLimit :
            qry' = [op |-> "parser", stop_code |-> stop_code, limit |-> limit,
                    time |-> <<>>, raised |-> FALSE,
                    rows |-> Parser_get_scheduled_departures(stop_code, limit)]
    /\ resp' = NoResp
    /\ QueryUnchanged

\* app.py: GET /api/stops/<stop_code>/departures with a valid limit.
\* The answer names the resolved timing point codes (line 283) when it holds
\* their departures.
get_departures_request ==
    /\ NoCallYet
    /\ pc["api"] = "serving"
    /\ \E raw \in QueryInputs, limit \in 1..MaxLimit, current_time \in QueryClocks,
          ov \in OvOutcomes :
         \E out \in get_departures_outcomes(raw, limit, current_time, ov) :
            /\ qry' = [op |-> "handler", stop_code |-> raw, limit |-> limit,
                       time |-> current_time, raised |-> out.raised, rows |-> out.rows,
                       resolved_codes |-> IF out.status = 200 THEN resolved_codes(raw, ov)
                                          ELSE <<>>]
            /\ resp' = [ep |-> "departures", status |-> out.status]
    /\ QueryUnchanged

\* ------------------------------------------- stop search, nearby, statistics
\* str.__contains__: sub in t
contains(t, sub) ==
    \E i \in 0..(Len(t) - Len(sub)) : SubSeq(t, i + 1, i + Len(sub)) = sub

\* str.startswith
startswith(t, prefix) ==
    Len(prefix) <= Len(t) /\ SubSeq(t, 1, Len(prefix)) = prefix

\* The LIKE operator of SQLite: in the pattern '%' (37) matches any run of
\* characters and '_' (95) any one character; any other character matches
\* itself, an ASCII letter in either case.
RECURSIVE Like(_, _)
Like(pattern, t) ==
    IF pattern = <<>> THEN t = <<>>
    ELSE IF Head(pattern) = 37
    THEN Like(Tail(pattern), t) \/ (t # <<>> /\ Like(pattern, Tail(t)))
    ELSE /\ t # <<>>
         /\ (Head(pattern) = 95 \/ lower(<<Head(pattern)>>) = lower(<<Head(t)>>))
         /\ Like(Tail(pattern), Tail(t))

\* round(): to the nearest whole number of units of d, a tie to the even one.
round_half_even(n, d) ==
    LET q == n \div d
        r == n % d
    IN IF 2 * r < d THEN q
       ELSE IF 2 * r > d THEN q + 1
       ELSE IF q % 2 = 0 THEN q ELSE q + 1

\* The feeds of the searches. stops.txt has up to MaxStops stops: stop i has
\* stop_id "Si" and stop_code "i", one of the names "ab", "Bab" and "a_", and
\* lies 40.0 m, 99.5 m or 100.4 m from the point the nearby searches ask for
\* (distance: what _calculate_distance gives for it, in tenths of a metre).
\* stop_times.txt has up to MaxRows rows of trip T1, the one trip of trips.txt,
\* each at one of these stops or at a stop "S9" that stops.txt lacks.
StopNames == {<<97, 98>>, <<66, 97, 98>>, <<97, 95>>}
StopDistances == {400, 995, 1004}

SearchStop(i, name, d) ==
    [stop_id |-> <<83, 48 + i>>, stop_code |-> <<48 + i>>, stop_name |-> name, distance |-> d]

SearchStops ==
    UNION {{[i \in 1..n |-> SearchStop(i, f[i][1], f[i][2])] :
               f \in [1..n -> StopNames \X StopDistances]} : n \in 0..MaxStops}

SearchStopTimeRow(id) ==
    [trip_id |-> "T1", arrival_time |-> FeedTime(10, 30, 0, TRUE),
     departure_time |-> FeedTime(10, 30, 0, TRUE), stop_id |-> id]

SearchStopTimes ==
    UNION {[1..n -> {SearchStopTimeRow(id) :
                        id \in {<<83, 48 + i>> : i \in 1..MaxStops} \cup {<<83, 57>>}}] :
              n \in 0..MaxRows}

SearchFeeds ==
    [stops : SearchStops, stop_times : SearchStopTimes,
     trips : {{FeedTrip("T1", "A", "R1", "n1")}}, routes : {FeedRoutes},
     calendar_dates : {{}}]

\* A slip in the build: the rows are added to those of the previous store.
build_tables_onto_previous(previous, feed) ==
    [load_feed(feed) EXCEPT !.stops = previous.stops \o @,
                            !.stop_times = previous.stop_times \o @]

\* _build_database, lines 79-80 and 150-311: the file of the previous store is
\* removed, so the tables hold the rows of the archive and nothing else.
build_tables(previous, feed) == load_feed(feed)

\* ---------------------------------------------- GTFSDatabase.search_stops
\* A slip in the subquery: the rows are counted whatever their stop.
Db_has_schedule_any_stop(stop) == Cardinality(DOMAIN store.stop_times) > 0

\* Line 399: (SELECT COUNT(*) FROM stop_times WHERE stop_times.stop_id =
\* stops.stop_id LIMIT 1), and line 412: has_schedule > 0.
Db_has_schedule(stop) ==
    Cardinality({k \in DOMAIN store.stop_times :
                    store.stop_times[k].stop_id = stop.stop_id}) > 0

\* Lines 391 and 401: WHERE LOWER(stop_name) LIKE '%' || query.lower() || '%'.
Db_search_where(query) ==
    {store.stops[i] :
        i \in {j \in DOMAIN store.stops :
                  Like(<<37>> \o lower(query) \o <<37>>, lower(store.stops[j].stop_name))}}

\* Lines 406-414: the dict made of a row.
Db_search_row(stop) ==
    [stop_code |-> stop.stop_code, stop_name |-> stop.stop_name,
     has_schedule |-> Db_has_schedule(stop)]

\* ORDER BY stop_name
ByName(stops) == {ab \in stops \X stops : TextLess(ab[1].stop_name, ab[2].stop_name)}

\* The outcomes of search_stops(query, limit) on the API's connection: ORDER BY
\* stop_name LIMIT ?; the order of stops of one name is not determined.
Db_search_stops(query, limit) ==
    IF query_raises(conn["api"])
    THEN {[raised |-> TRUE, rows |-> <<>>]}
    ELSE {[raised |-> FALSE,
           rows |-> [i \in DOMAIN FirstOf(r, limit) |-> Db_search_row(r[i])]] :
             r \in OrderedBy(Db_search_where(query), ByName(Db_search_where(query)))}

\* app.py search_stops, lines 135-165: the query is trimmed and must have 2 to
\* 100 characters; [status, query, raised, rows] for a valid limit.
search_stops_outcomes(raw, limit) ==
    LET query == strip(raw)
    IN IF ~gtfs_parser
       THEN {[status |-> 503, query |-> query, raised |-> FALSE, rows |-> <<>>]}
       ELSE IF Len(query) < 2 \/ Len(query) > 100
       THEN {[status |-> 400, query |-> query, raised |-> FALSE, rows |-> <<>>]}
       ELSE {[status |-> IF out.raised THEN 500 ELSE 200, query |-> query,
              raised |-> out.raised, rows |-> out.rows] :
               out \in Db_search_stops(query, limit)}

\* ------------------------------------------------ GTFSParser.search_stops
\* self.stops after _parse_stops: the stops by stop code, in file order (the
\* stops of these feeds differ in their codes, and none is empty).
Parser_stops == store.stops

\* _get_stop_code_by_id: the code of the first stop with this id; <<>> for None.
Parser_get_stop_code_by_id(stop_id) ==
    LET found == {i \in DOMAIN Parser_stops : Parser_stops[i].stop_id = stop_id}
    IN IF found = {} THEN <<>>
       ELSE Parser_stops[CHOOSE i \in found : \A j \in found : i <= j].stop_code

\* stop_code in self.stop_times: _parse_stop_times (lines 260-276) made a list
\* for the code when it read a row whose trimmed stop_id is the id of the stop.
Parser_has_schedule(stop) ==
    \E k \in DOMAIN store.stop_times :
        Parser_get_stop_code_by_id(strip(store.stop_times[k].stop_id)) = stop.stop_code

\* Lines 323-327: the sort key (not startswith, stop_name).
Parser_search_key(query_lower, a, b) ==
    LET sa == startswith(lower(a.stop_name), query_lower)
        sb == startswith(lower(b.stop_name), query_lower)
    IN (sa /\ ~sb) \/ (sa = sb /\ TextLess(a.stop_name, b.stop_name))

\* Lines 301-329: the first `limit` stops, in the order of self.stops, whose
\* lower-cased name contains the lower-cased query; then the sort.
Parser_search_stops(query, limit) ==
    LET query_lower == lower(query)
        found == SelectSeq(Parser_stops,
                     LAMBDA stop : contains(lower(stop.stop_name), query_lower))
        results == [i \in DOMAIN FirstOf(found, limit) |->
                       [stop_code |-> found[i].stop_code, stop_name |-> found[i].stop_name,
                        has_schedule |-> Parser_has_schedule(found[i])]]
    IN StableSort(results,
                  {ab \in Pairs(results) : Parser_search_key(query_lower, ab[1], ab[2])})

\* -------------------------------------------- GTFSParser.find_nearby_stops
\* A slip in the test: the rounded distance is compared.
Parser_within_rounded(stop, radius_meters) ==
    round_half_even(stop.distance, 10) <= radius_meters

\* Line 340: the test on the distance as computed.
Parser_within(stop, radius_meters) == stop.distance <= radius_meters * 10

\* Lines 336-354: the stops within the radius with their rounded distance,
\* sorted by it, the first `limit` of them.
Parser_find_nearby_stops(radius_meters, limit) ==
    LET near == SelectSeq(Parser_stops, LAMBDA stop : Parser_within(stop, radius_meters))
        results == [i \in DOMAIN near |->
                       [stop_code |-> near[i].stop_code, stop_name |-> near[i].stop_name,
                        distance_meters |-> round_half_even(near[i].distance, 10),
                        has_schedule |-> Parser_has_schedule(near[i])]]
    IN FirstOf(StableSort(results,
                   {ab \in Pairs(results) : ab[1].distance_meters < ab[2].distance_meters}),
               limit)

\* ------------------------------------------------ GTFSDatabase.get_stats
\* Lines 485-499 on tables: COUNT(*) FROM stops, COUNT(DISTINCT stop_id) FROM
\* stop_times, COUNT(*) FROM stop_times; coverage_percent in tenths of a
\* percent.
Stats(tables) ==
    LET stops_count == Len(tables.stops)
        stops_with_schedule ==
            Cardinality({tables.stop_times[k].stop_id : k \in DOMAIN tables.stop_times})
    IN [stops_count |-> stops_count,
        stops_with_schedule |-> stops_with_schedule,
        total_departures |-> Len(tables.stop_times),
        coverage_percent |-> IF stops_count > 0
                             THEN round_half_even(stops_with_schedule * 1000, stops_count)
                             ELSE 0]

\* The outcome of get_stats() on the API's connection.
Db_get_stats ==
    IF query_raises(conn["api"])
    THEN [raised |-> TRUE, rows |-> <<>>]
    ELSE [raised |-> FALSE, rows |-> <<Stats(store)>>]

\* app.py root, lines 87-107: get_stats is called outside any try, so what it
\* raises is answered by the handler of error 500 (lines 336-340).
root_status ==
    IF ~gtfs_parser THEN 503
    ELSE IF Db_get_stats.raised THEN 500
    ELSE 200

\* app.py health_check, lines 110-123; both bodies are JSON with "status".
health_check_status == IF ~gtfs_parser THEN 503 ELSE 200

\* ------------------------------------------------------- search actions
SearchInputs == {<<97, 98>>, <<65, 66>>, <<97, 95>>, <<32, 97, 98>>, <<32, 97>>}
SearchRadii == {100, 101}

\* app.py: GET /api/stops/search with a valid limit.
search_stops_request ==
    /\ NoCallYet
    /\ pc["api"] = "serving"
    /\ \E raw \in SearchInputs, limit \in 1..MaxLimit :
         \E out \in search_stops_outcomes(raw, limit) :
            /\ qry' = [op |-> "search", stop_code |-> out.query, limit |-> limit,
                       time |-> <<>>, raised |-> out.raised, rows |-> out.rows]
            /\ resp' = [ep |-> "search", status |-> out.status]
    /\ QueryUnchanged

\* A call of GTFSParser.search_stops on an instance that parsed the same feed.
GTFSParser_search_stops ==
    /\ NoCallYet
    /\ \E query \in {strip(raw) : raw \in SearchInputs}, limit \in 1..MaxLimit :
         /\ Len(query) >= 2
         /\ qry' = [op |-> "parser_search", stop_code |-> query, limit |-> limit,
                    time |-> <<>>, raised |-> FALSE,
                    rows |-> Parser_search_stops(query, limit)]
    /\ resp' = NoResp
    /\ QueryUnchanged

\* A call of GTFSParser.find_nearby_stops, with a radius the handler lets
\* through (100 to 10000).
GTFSParser_find_nearby_stops ==
    /\ NoCallYet
    /\ \E radius_meters \in SearchRadii, limit \in 1..MaxLimit :
         qry' = [op |-> "parser_nearby", stop_code |-> <<>>, limit |-> limit,
                 time |-> radius_meters, raised |-> FALSE,
                 rows |-> Parser_find_nearby_stops(radius_meters, limit)]
    /\ resp' = NoResp
    /\ QueryUnchanged

\* A call of GTFSDatabase.get_stats on the API's instance.
get_stats ==
    /\ NoCallYet
    /\ gtfs_parser
    /\ qry' = [op |-> "stats", stop_code |-> <<>>, limit |-> 0, time |-> <<>>,
               raised |-> Db_get_stats.raised, rows |-> Db_get_stats.rows]
    /\ resp' = NoResp
    /\ QueryUnchanged

\* app.py: GET /
root ==
    /\ NoCallYet
    /\ pc["api"] = "serving"
    /\ qry' = [op |-> "root", stop_code |-> <<>>, limit |-> 0, time |-> <<>>,
               raised |-> gtfs_parser /\ Db_get_stats.raised, rows |-> <<>>]
    /\ resp' = [ep |-> "root", status |-> root_status]
    /\ QueryUnchanged

\* app.py: GET /health
health_check ==
    /\ NoCallYet
    /\ pc["api"] = "serving"
    /\ qry' = [op |-> "health", stop_code |-> <<>>, limit |-> 0, time |-> <<>>,
               raised |-> FALSE, rows |-> <<>>]
    /\ resp' = [ep |-> "health", status |-> health_check_status]
    /\ QueryUnchanged

\* _build_database once more from the archive the store was built from, with
\* get_stats before and after on a connection to the file of the time.
rebuild ==
    /\ NoCallYet
    /\ db.state = "full"
    /\ store' = build_tables(store, gtfs)
    /\ qry' = [op |-> "rebuild", stop_code |-> <<>>, limit |-> 0, time |-> <<>>,
               raised |-> FALSE, rows |-> <<Stats(store), Stats(store')>>]
    /\ resp' = NoResp
    /\ UNCHANGED <<now, fsVars, pc, conn, bconn, should_download, should_rebuild,
                   fetched, nreq, loadErr, prevStore, notModifiedAt, gtfs_parser,
                   parserVars, gtfs>>

\* ------------------------------------------------ values and conversions
\* A value of a column or of a csv field that may be missing: <<>> for NULL /
\* absent, <<v>> for the value v.

\* A slip in the table: 2 is labelled as the comment above it reads.
route_type_names_rail ==
    [t \in 0..7 |->
        CASE t = 0 -> "Tram" [] t = 1 -> "Metro" [] t = 2 -> "Rail" [] t = 3 -> "Bus"
          [] t = 4 -> "Ferry" [] t = 5 -> "Cable Car" [] t = 6 -> "Gondola"
          [] t = 7 -> "Funicular"]

\* get_scheduled_departures, lines 466-467: the dict route_type_names.
route_type_names ==
    [t \in 0..7 |->
        CASE t = 0 -> "Tram" [] t = 1 -> "Metro" [] t = 2 -> "Train" [] t = 3 -> "Bus"
          [] t = 4 -> "Ferry" [] t = 5 -> "Cable Car" [] t = 6 -> "Gondola"
          [] t = 7 -> "Funicular"]

\* Line 468: mode = route_type_names.get(row['route_type'], 'Transit').
mode(route_type) ==
    IF route_type # <<>> /\ route_type[1] \in DOMAIN route_type_names
    THEN route_type_names[route_type[1]]
    ELSE "Transit"

\* ------------------------------------ _build_database: the numeric columns
\* A field of a csv row: <<>> when the file has no such column, <<text>>
\* otherwise.
\* The number a str of digits stands for.
RECURSIVE digits_value(_)
digits_value(t) ==
    IF t = <<>> THEN 0
    ELSE digits_value(SubSeq(t, 1, Len(t) - 1)) * 10 + (t[Len(t)] - 48)

\* A str without its sign ('+' 43, '-' 45), and the sign.
unsigned(t) == IF t # <<>> /\ t[1] \in {43, 45} THEN Tail(t) ELSE t
sign(t) == IF t # <<>> /\ t[1] = 45 THEN -1 ELSE 1

\* int(text): blanks around are dropped; a sign and digits; anything else
\* raises ValueError.
int_raises(text) == ~isdigit(unsigned(strip(text)))
int_value(text) == sign(strip(text)) * digits_value(unsigned(strip(text)))

\* float(text), for texts of digits with at most one decimal; the value in
\* tenths. A text without a digit raises ValueError.
float_whole(text) ==
    LET u == unsigned(strip(text))
    IN IF Len(u) >= 2 /\ u[Len(u) - 1] = 46 THEN SubSeq(u, 1, Len(u) - 2) ELSE u
float_tenth(text) ==
    LET u == unsigned(strip(text))
    IN IF Len(u) >= 2 /\ u[Len(u) - 1] = 46 THEN <<u[Len(u)]>> ELSE <<48>>
float_raises(text) == ~isdigit(float_whole(text)) \/ ~isdigit(float_tenth(text))
float_value(text) ==
    sign(strip(text)) * (digits_value(float_whole(text)) * 10 + digits_value(float_tenth(text)))

\* The numeric columns the build loads, and the default each row.get names
\* (lines 162-163, 187, 216, 256, 292).
FloatColumns == {"stop_lat", "stop_lon"}
IntColumns == {"route_type", "stop_sequence", "direction_id", "exception_type"}
column_default(column) ==
    CASE column = "route_type" -> 3
      [] column = "exception_type" -> 1
      [] OTHER -> 0

\* float(row.get(column, default)) / int(row.get(column, default)): the value
\* loaded, floats in tenths, or the exception.
build_numeric(column, field) ==
    IF field = <<>>
    THEN [raised |-> FALSE,
          value |-> IF column \in FloatColumns THEN 10 * column_default(column)
                    ELSE column_default(column)]
    ELSE IF column \in FloatColumns
    THEN (IF float_raises(field[1]) THEN [raised |-> TRUE, value |-> 0]
          ELSE [raised |-> FALSE, value |-> float_value(field[1])])
    ELSE (IF int_raises(field[1]) THEN [raised |-> TRUE, value |-> 0]
          ELSE [raised |-> FALSE, value |-> int_value(field[1])])

\* row.get(column, ''): a text column.
TextColumns == {"stop_name", "trip_headsign"}
build_text(field) ==
    [raised |-> FALSE, value |-> IF field = <<>> THEN <<>> ELSE field[1]]

\* -------------------------------------------- GTFSParser._calculate_distance
\* The formula in fixed-point arithmetic on coordinates in whole degrees,
\* multiples of 30 for latitudes and of 60 for longitudes, so that the half
\* differences are multiples of 15 degrees. math.sin and math.cos of such an
\* angle, cut to hundredths: the sines of 0, 15, ..., 90 degrees, carried to
\* the other quadrants.
SinTable == <<0, 25, 50, 70, 86, 96, 100>>

sin(deg) ==
    LET d == deg % 360
    IN IF d <= 90 THEN SinTable[(d \div 15) + 1]
       ELSE IF d <= 180 THEN SinTable[((180 - d) \div 15) + 1]
       ELSE IF d <= 270 THEN 0 - SinTable[((d - 180) \div 15) + 1]
       ELSE 0 - SinTable[((360 - d) \div 15) + 1]

cos(deg) == sin(deg + 90)

\* math.sqrt of a number of hundred-millionths, in ten-thousandths.
sqrt(n) == CHOOSE r \in 0..10000 : r * r <= n /\ n < (r + 1) * (r + 1)

\* math.atan2(y, x) for y >= 0 and x >= 0, in degrees, to the multiple of 15
\* below.
atan2(y, x) ==
    LET below == {k \in 0..6 : sin(15 * k) * x <= cos(15 * k) * y}
    IN 15 * (CHOOSE k \in below : \A j \in below : j <= k)

\* A slip in the formula: the cosine of the first latitude is taken twice.
haversine_a_first_latitude(lat1, lon1, lat2, lon2) ==
    LET delta_lat == lat2 - lat1
        delta_lon == lon2 - lon1
    IN (sin(delta_lat \div 2) * sin(delta_lat \div 2)) * 10000
         + cos(lat1) * cos(lat1) * (sin(delta_lon \div 2) * sin(delta_lon \div 2))

\* Lines 388-395: a, in hundred-millionths.
haversine_a(lat1, lon1, lat2, lon2) ==
    LET delta_lat == lat2 - lat1
        delta_lon == lon2 - lon1
    IN (sin(delta_lat \div 2) * sin(delta_lat \div 2)) * 10000
         + cos(lat1) * cos(lat2) * (sin(delta_lon \div 2) * sin(delta_lon \div 2))

\* Line 386: the radius of the earth in metres.
R == 6371000

\* Lines 397-399: c = 2 * atan2(sqrt(a), sqrt(1 - a)), here in thousandths of
\* a radian, and R * c in metres.
_calculate_distance(lat1, lon1, lat2, lon2) ==
    LET a == haversine_a(lat1, lon1, lat2, lon2)
        c == (2 * atan2(sqrt(a), sqrt(100000000 - a)) * 3142) \div 180
    IN (R \div 1000) * c

Latitudes == {30 * k : k \in -3..3}
Longitudes == {60 * k : k \in -3..3}

\* ------------------------------------------------------- value actions
\* The route_type values of the rows: NULL and the integers around 0..7.
RouteTypes == {<<>>} \cup {<<t>> : t \in -3..11}

\* The mode of one row of the result of get_scheduled_departures.
departure_mode ==
    /\ NoCallYet
    /\ \E route_type \in RouteTypes :
         qry' = [op |-> "mode", stop_code |-> <<>>, limit |-> 0, time |-> <<>>,
                 raised |-> FALSE,
                 rows |-> <<[route_type |-> route_type, mode |-> mode(route_type)]>>]
    /\ resp' = NoResp
    /\ QueryUnchanged

\* The fields read: no column, '', 'x', '3', '-1', ' 2', '1.5'.
CsvFields ==
    {<<>>, <<(<<>>)>>, <<(<<120>>)>>, <<(<<51>>)>>, <<(<<45, 49>>)>>, <<(<<32, 50>>)>>,
     <<(<<49, 46, 53>>)>>}

\* _build_database reads one field of a row of a file of the archive.
build_field ==
    /\ NoCallYet
    /\ \E column \in FloatColumns \cup IntColumns \cup TextColumns, field \in CsvFields :
         LET out == IF column \in TextColumns THEN build_text(field)
                    ELSE build_numeric(column, field)
         IN qry' = [op |-> "field", stop_code |-> <<>>, limit |-> 0, time |-> <<>>,
                    raised |-> out.raised,
                    rows |-> <<[column |-> column, field |-> field, value |-> out.value]>>]
    /\ resp' = NoResp
    /\ QueryUnchanged

\* _calculate_distance from a point to another and back.
calculate_distance ==
    /\ NoCallYet
    /\ \E lat1 \in Latitudes, lon1 \in Longitudes, lat2 \in Latitudes, lon2 \in Longitudes :
         qry' = [op |-> "distance", stop_code |-> <<lat1, lon1, lat2, lon2>>, limit |-> 0,
                 time |-> <<>>, raised |-> FALSE,
                 rows |-> <<_calculate_distance(lat1, lon1, lat2, lon2),
                            _calculate_distance(lat2, lon2, lat1, lon1)>>]
    /\ resp' = NoResp
    /\ QueryUnchanged

\* ---------------------------------------------------------------- clock
\* Time passes between the steps of the processes. The clock is sampled at the
\* instants 0, TTL, TTL + 1, 2 TTL + 1, ...: a cache lifetime passes, then one
\* more second, so that an age of exactly CACHE_TTL_SECONDS and an age just
\* above it both occur.
Ticks == (now \div CACHE_TTL_SECONDS) + (now % CACHE_TTL_SECONDS)

TickTTL ==
    /\ Ticks < MaxTicks
    /\ now % CACHE_TTL_SECONDS = now \div CACHE_TTL_SECONDS
    /\ now' = now + CACHE_TTL_SECONDS
    /\ UNCHANGED <<fsVars, procVars, parserVars, queryVars>>

TickSecond ==
    /\ Ticks < MaxTicks
    /\ now % CACHE_TTL_SECONDS < now \div CACHE_TTL_SECONDS
    /\ now' = now + 1
    /\ UNCHANGED <<fsVars, procVars, parserVars, queryVars>>

\* ------------------------------------------------------- specifications
\* Before any process has run: the clock, the processes, the parser.
InitProcesses ==
    /\ now = 0
    /\ pc = [p \in Procs |-> "idle"]
    /\ conn = [p \in Procs |-> Closed]
    /\ bconn = [p \in Procs |-> "closed"]
    /\ should_download = [p \in Procs |-> FALSE]
    /\ should_rebuild = [p \in Procs |-> FALSE]
    /\ fetched = [p \in Procs |-> NotFetched]
    /\ nreq = [p \in Procs |-> 0]
    /\ loadErr = [p \in Procs |-> "none"]
    /\ prevStore = [p \in Procs |-> NoStore]
    /\ notModifiedAt = -1
    /\ gtfs_parser = FALSE
    /\ resp = NoResp
    /\ pPc = "idle"
    /\ attempt = 0
    /\ sleeps = <<>>
    /\ pReq = 0
    /\ pLast = NoLast
    /\ pTokens = [etag |-> 0, last_modified |-> 0]
    /\ pHdr = NoHdr
    /\ pIndex = <<>>
    /\ store = NoTables
    /\ qry = NoQuery
    /\ gtfs = NoTables

\* An empty data directory.
Init ==
    /\ archive = NoArchive
    /\ meta = NoMeta
    /\ db = NoDb
    /\ InitProcesses

\* A data directory as earlier runs or the operator left it: with or without
\* the archive, with or without a built gtfs.db (update_gtfs.py, lines 50-51,
\* provides for both being absent).
InitDir ==
    /\ archive \in {NoArchive, [exists |-> TRUE, mtime |-> 0, feed |-> 1, good |-> TRUE]}
    /\ meta = NoMeta
    /\ db \in {NoDb, [state |-> "full", feed |-> 1, mtime |-> 0]}
    /\ InitProcesses

Next ==
    \/ init_gtfs_data
    \/ main
    \/ \E p \in Procs : load_data_download(p)
    \/ \E p \in Procs : load_data_check_db(p)
    \/ \E p \in Procs : build_unlink(p)
    \/ \E p \in Procs : build_create(p)
    \/ \E p \in Procs : build_fill(p)
    \/ \E p \in Procs : _connect(p)
    \/ \E p \in Procs : after_load(p)
    \/ search_stops
    \/ nearby_stops
    \/ get_departures
    \/ TickTTL
    \/ TickSecond

\* The API process and the cron script on one data directory.
Spec == Init /\ [][Next]_vars

NextParser ==
    \/ GTFSParser_init
    \/ GTFSParser_load_data
    \/ GTFSParser_download_attempt
    \/ GTFSParser_parse
    \/ TickTTL
    \/ TickSecond

\* The same processes on a data directory found in any of these states.
SpecDir == InitDir /\ [][Next]_vars

\* The API process after init_gtfs_data, in each of the states it can be left
\* in: no GTFSDatabase object, no connection, a connection on a file without
\* tables, on empty tables, on a store built from one of the feeds.
ServingStates ==
    {[gtfs_parser |-> FALSE, conn |-> Closed, db |-> NoDb],
     [gtfs_parser |-> TRUE, conn |-> Closed, db |-> NoDb],
     [gtfs_parser |-> TRUE, conn |-> Live, db |-> [state |-> "blank", feed |-> 0, mtime |-> 0]],
     [gtfs_parser |-> TRUE, conn |-> Live, db |-> [state |-> "schema", feed |-> 0, mtime |-> 0]],
     [gtfs_parser |-> TRUE, conn |-> Live, db |-> [state |-> "full", feed |-> 1, mtime |-> 0]]}

InitQuery ==
    /\ now = 0
    /\ archive = [exists |-> TRUE, mtime |-> 0, feed |-> 1, good |-> TRUE]
    /\ meta = NoMeta
    /\ \E st \in ServingStates :
         /\ gtfs_parser = st.gtfs_parser
         /\ conn = [p \in Procs |-> IF p = "api" THEN st.conn ELSE Closed]
         /\ db = st.db
         /\ IF st.db.state = "full"
            THEN \E f \in GtfsFeeds : gtfs = f /\ store = load_feed(f)
            ELSE gtfs = NoTables /\ store = NoTables
    /\ pc = [p \in Procs |-> IF p = "api" THEN "serving" ELSE "idle"]
    /\ bconn = [p \in Procs |-> "closed"]
    /\ should_download = [p \in Procs |-> FALSE]
    /\ should_rebuild = [p \in Procs |-> FALSE]
    /\ fetched = [p \in Procs |-> NotFetched]
    /\ nreq = [p \in Procs |-> 0]
    /\ loadErr = [p \in Procs |-> "none"]
    /\ prevStore = [p \in Procs |-> NoStore]
    /\ notModifiedAt = -1
    /\ resp = NoResp
    /\ pPc = "idle"
    /\ attempt = 0
    /\ sleeps = <<>>
    /\ pReq = 0
    /\ pLast = NoLast
    /\ pTokens = [etag |-> 0, last_modified |-> 0]
    /\ pHdr = NoHdr
    /\ pIndex = <<>>
    /\ qry = NoQuery

NextQuery ==
    \/ get_scheduled_departures
    \/ GTFSParser_get_scheduled_departures
    \/ get_departures_request

\* The departures queries on a store built from a feed.
SpecQuery == InitQuery /\ [][NextQuery]_vars

\* The in-memory variant: a GTFSParser on the data directory.
SpecParser == Init /\ [][NextParser]_vars

\* The API process after init_gtfs_data on a store built from one of the
\* feeds of the searches.
InitSearch ==
    /\ now = 0
    /\ archive = [exists |-> TRUE, mtime |-> 0, feed |-> 1, good |-> TRUE]
    /\ meta = NoMeta
    /\ \E st \in ServingStates :
         /\ gtfs_parser = st.gtfs_parser
         /\ conn = [p \in Procs |-> IF p = "api" THEN st.conn ELSE Closed]
         /\ db = st.db
         /\ IF st.db.state = "full"
            THEN \E f \in SearchFeeds : gtfs = f /\ store = build_tables(NoTables, f)
            ELSE gtfs = NoTables /\ store = NoTables
    /\ pc = [p \in Procs |-> IF p = "api" THEN "serving" ELSE "idle"]
    /\ bconn = [p \in Procs |-> "closed"]
    /\ should_download = [p \in Procs |-> FALSE]
    /\ should_rebuild = [p \in Procs |-> FALSE]
    /\ fetched = [p \in Procs |-> NotFetched]
    /\ nreq = [p \in Procs |-> 0]
    /\ loadErr = [p \in Procs |-> "none"]
    /\ prevStore = [p \in Procs |-> NoStore]
    /\ notModifiedAt = -1
    /\ resp = NoResp
    /\ pPc = "idle"
    /\ attempt = 0
    /\ sleeps = <<>>
    /\ pReq = 0
    /\ pLast = NoLast
    /\ pTokens = [etag |-> 0, last_modified |-> 0]
    /\ pHdr = NoHdr
    /\ pIndex = <<>>
    /\ qry = NoQuery

NextSearch ==
    \/ search_stops_request
    \/ GTFSParser_search_stops
    \/ GTFSParser_find_nearby_stops
    \/ get_stats
    \/ root
    \/ health_check
    \/ rebuild

\* The stop searches, the statistics and the status pages on such a store.
SpecSearch == InitSearch /\ [][NextSearch]_vars

NextValues ==
    \/ departure_mode
    \/ calculate_distance
    \/ build_field

\* The conversions of single values, each applied to the values of a small set.
SpecValues == Init /\ [][NextValues]_vars

\* ------------------------------------------------- a revalidating server
\* requests.get against a server that answers a request carrying
\* If-None-Match / If-Modified-Since with 304 and any other request with 200
\* and a complete, well-formed body (gtfs_db.py, lines 352-366): the outcome
\* of load_data_download against that server.
RevalidatingServer(p) ==
    fetched'[p] # NotFetched =>
        /\ fetched'[p] = IF Db_conditional THEN 304 ELSE 200
        /\ fetched'[p] = 200 => (pc'[p] = "checkdb" /\ archive'.good)

\* GTFSDatabase.load_data, lines 43-52, against the revalidating server.
load_data_revalidate(p) == load_data_download(p) /\ RevalidatingServer(p)

\* The metadata file of an earlier download, with an ETag.
StoredMeta == [exists |-> TRUE, etag |-> 1, lastmod |-> 0, downloaded |-> FALSE]

\* A data directory with or without each of its three files.
InitRevalidate ==
    /\ archive \in {NoArchive, [exists |-> TRUE, mtime |-> 0, feed |-> 1, good |-> TRUE]}
    /\ meta \in {NoMeta, StoredMeta}
    /\ db \in {NoDb, [state |-> "full", feed |-> 1, mtime |-> 0]}
    /\ InitProcesses

NextRevalidate ==
    \/ init_gtfs_data
    \/ main
    \/ \E p \in Procs : load_data_revalidate(p)
    \/ \E p \in Procs : load_data_check_db(p)
    \/ \E p \in Procs : build_unlink(p)
    \/ \E p \in Procs : build_create(p)
    \/ \E p \in Procs : build_fill(p)
    \/ \E p \in Procs : _connect(p)
    \/ \E p \in Procs : after_load(p)
    \/ TickTTL
    \/ TickSecond

\* load_data is called again and again (the API process restarts, cron starts
\* update_gtfs.py every night), and a call that has started runs to its end.
FairRevalidate ==
    /\ WF_vars(init_gtfs_data)
    /\ WF_vars(main)
    /\ \A p \in Procs :
         /\ WF_vars(load_data_revalidate(p))
         /\ WF_vars(load_data_check_db(p))
         /\ WF_vars(build_unlink(p))
         /\ WF_vars(build_create(p))
         /\ WF_vars(build_fill(p))
         /\ WF_vars(_connect(p))
         /\ WF_vars(after_load(p))

\* Repeated load_data calls against the revalidating server.
SpecRevalidate == InitRevalidate /\ [][NextRevalidate]_vars /\ FairRevalidate
\* ================================================================ claims
\* Steps of process p are the steps that change pc[p].
Building(p) == pc[p] \in {"create", "fill"}

\* C1: while _build_database runs over a complete previous store, what a reader
\* finds at gtfs.db, and what every open connection reads, is a complete store
\* (never a missing file, a file without tables, or tables without rows).
C1_ReadersSeeCompleteStore ==
    \A p \in Procs :
        (Building(p) /\ prevStore[p].state = "full")
        => /\ StoreAtPath.state = "full"
           /\ \A q \in Procs : conn[q].open => StoreOf(conn[q]).state = "full"

\* C2: a build that aborts leaves the previously built gtfs.db as it was on
\* entry to _build_database.
C2_AbortKeepsPreviousStore ==
    [][\A p \in Procs :
          (Building(p) /\ loadErr'[p] = "build" /\ prevStore[p].state = "full")
          => StoreAtPath' = prevStore[p]]_vars

\* C3: when the download fails in init_gtfs_data while a complete gtfs.db
\* exists, gtfs.db is unchanged and the API serves it from then on: its
\* connection is open on it, and search, departures and statistics queries
\* succeed.
C3_DownloadFailureKeepsServing ==
    [][(/\ pc["api"] = "load"
        /\ loadErr'["api"] = "download"
        /\ StoreAtPath.state = "full")
       => /\ db' = db
          /\ conn'["api"].open
          /\ (search_status)' = 200
          /\ (departures_status(TRUE))' = 200
          /\ ~(query_raises(conn["api"]))']_vars

\* C4: with no store connection open, a valid search, nearby or departures
\* request is answered 503.
C4_NoConnectionAnswers503 ==
    (resp.ep \in {"search", "nearby", "departures"} /\ ~conn["api"].open)
    => resp.status = 503

\* C5: a load_data whose fetch got 304, with a gtfs.db that is not older than
\* the archive: the fetch changes no file, the rebuild decision is "no build"
\* and changes no file, and _connect opens the existing gtfs.db.
C5_Step(p) ==
    /\ (pc[p] = "load" /\ pc'[p] # "load" /\ fetched'[p] = 304)
       => (pc'[p] = "checkdb" /\ UNCHANGED fsVars)
    /\ (/\ pc[p] = "checkdb" /\ pc'[p] # "checkdb" /\ fetched[p] = 304
        /\ db_exists /\ archive.exists /\ db.mtime >= archive.mtime)
       => (pc'[p] = "connect" /\ ~should_rebuild'[p] /\ UNCHANGED fsVars)
    /\ (/\ pc[p] = "connect" /\ pc'[p] # "connect" /\ fetched[p] = 304
        /\ ~should_rebuild[p] /\ db_exists)
       => (pc'[p] = "ready" /\ conn'[p] = Live /\ UNCHANGED fsVars)

\* C5: every step of a load_data whose fetch got 304 is as C5_Step states.
C5_NotModifiedChangesNothing == [][\A p \in Procs : C5_Step(p)]_vars

C5_Witness ==
    \E p \in Procs :
        /\ pc[p] = "ready" /\ fetched[p] = 304 /\ ~should_rebuild[p]
        /\ conn[p] = Live /\ StoreAtPath.state = "full"

\* C6: GTFSParser._download_gtfs sleeps 5, 10 and 15 minutes before the 1st,
\* 2nd and 3rd retry, issues at most 4 requests, raises on the 4th consecutive
\* 429 without sleeping again, and returns on a 304 or a completely received
\* 200 with no further request.
C6_State ==
    /\ Len(sleeps) <= 3
    /\ \A i \in 1..Len(sleeps) : sleeps[i] = i * 5 * 60
    /\ Len(sleeps) = attempt
    /\ pReq <= 4
    /\ pPc = "fetch" => pReq = attempt
    /\ (pPc = "error" /\ pLast.status = 429) => (pReq = 4 /\ sleeps = <<300, 600, 900>>)

C6_Step ==
    /\ (pReq' = pReq + 1 /\ pLast'.status = 429)
       => IF pReq < 3
          THEN pPc' = "fetch" /\ sleeps' = Append(sleeps, (pReq + 1) * 5 * 60)
          ELSE pPc' = "error" /\ sleeps' = sleeps
    /\ (pReq' = pReq + 1 /\ pLast'.status \in {200, 304} /\ pLast'.complete)
       => (pPc' = "ok" /\ sleeps' = sleeps)
    /\ pPc # "fetch" => pReq' \in {pReq, 0}

\* C6: the backoff schedule holds in every state and over every step.
C6_RateLimitBackoff == []C6_State /\ [][C6_Step]_vars

C6_Witness ==
    pPc = "error" /\ pLast.status = 429 /\ pReq = 4 /\ sleeps = <<300, 600, 900>>

\* C7: GTFSDatabase._download_gtfs fails on 429 only after 3 retries.
C7_DbFetcherRetries429 ==
    \A p \in Procs :
        (loadErr[p] = "download" /\ fetched[p] = 429) => nreq[p] = max_retries + 1

\* C8: a fetch whose request raised a network exception fails only after the
\* retries are used up.
C8_ConnectionFailureRetried ==
    \A p \in Procs :
        (loadErr[p] = "download" /\ fetched[p] = NoResponse) => nreq[p] = max_retries + 1

\* C9: a response with a status other than 200, 304 and 429 ends the fetch with
\* an error, without a sleep, and leaves the archive and the metadata file as
\* they were.
C9_OtherStatusIsFatal ==
    [][(pReq' = pReq + 1 /\ pLast'.status \notin {NoResponse, 200, 304, 429})
       => (pPc' = "error" /\ sleeps' = sleeps /\ archive' = archive /\ meta' = meta)]_vars

\* C10: right after a _download_gtfs that returned normally, _is_cache_expired()
\* is false.
C10_FreshAfterSuccessfulFetch ==
    [][\A p \in Procs :
          (pc[p] = "load" /\ pc'[p] = "checkdb" /\ should_download'[p])
          => ~(_is_cache_expired)']_vars

\* C11: a load_data that makes its download decision within CACHE_TTL_SECONDS
\* of a 304 received by an earlier _download_gtfs issues no request.
C11_NoRequestWithinTTLOfNotModified ==
    [][\A p \in Procs :
          (/\ pc[p] = "load" /\ pc'[p] # "load"
           /\ notModifiedAt # -1
           /\ now - notModifiedAt <= CACHE_TTL_SECONDS)
          => nreq'[p] = 0]_vars

\* C12: _is_db_outdated returns in every state of the data directory: neither
\* main (lines 50-51) nor load_data (lines 55-58) ends with the exception of
\* its stat call, so main proceeds to the download when the archive is missing.
C12_StoreCheckNeverRaises ==
    [][\A p \in Procs : loadErr'[p] # "stat"]_vars

\* C13: after a _download_gtfs that received a complete 200 response, the
\* metadata file exists and records, beside the tokens of the response, a
\* download timestamp.
C13_MetadataRecordsDownloadTime ==
    [][\A p \in Procs :
          (pc[p] = "load" /\ pc'[p] = "checkdb" /\ fetched'[p] = 200)
          => (meta'.exists /\ meta'.downloaded)]_vars

\* C14: every request of GTFSParser._download_gtfs, the retries after a 429
\* included, carries the configured non-empty User-Agent, carries If-None-Match
\* exactly when the instance holds an entity tag (with that tag as its value),
\* and If-Modified-Since exactly when it holds a last-modified value.
C14_RequestHeaders ==
    [][(pReq' = pReq + 1)
       => /\ pHdr'.user_agent = USER_AGENT
          /\ pHdr'.user_agent # ""
          /\ (pHdr'.if_none_match # 0) <=> (pTokens.etag # 0)
          /\ pHdr'.if_none_match = pTokens.etag
          /\ (pHdr'.if_modified_since # 0) <=> (pTokens.last_modified # 0)
          /\ pHdr'.if_modified_since = pTokens.last_modified]_vars

\* A retry after a 429 was sent, with an entity tag and no last-modified value.
C14_Witness ==
    /\ pReq >= 2
    /\ pLast.status = 429
    /\ pHdr.user_agent = USER_AGENT
    /\ pHdr.if_none_match # 0
    /\ pHdr.if_modified_since = 0

\* The clock time a departure_time or current_time text stands for, in seconds:
\* hours, minutes and seconds read as numbers.
ClockSeconds(t) ==
    LET c == CHOOSE i \in DOMAIN t : t[i] = 58 /\ \A j \in 1..(i - 1) : t[j] # 58
        hours == IF c = 2 THEN t[1] - 48 ELSE 10 * (t[1] - 48) + (t[2] - 48)
    IN hours * 3600 + (10 * (t[c + 1] - 48) + (t[c + 2] - 48)) * 60
           + 10 * (t[c + 4] - 48) + (t[c + 5] - 48)

\* A call of GTFSDatabase.get_scheduled_departures that returned.
DbCallReturned == qry.op = "db" /\ ~qry.raised

\* C15: no record returned by GTFSDatabase.get_scheduled_departures has a
\* departure clock time earlier than the current time of day of the query.
C15_NoDepartureBeforeNow ==
    DbCallReturned
    => \A k \in DOMAIN qry.rows :
          ClockSeconds(qry.rows[k].departure_time) >= ClockSeconds(qry.time)

\* The stop_times row i, its trip t and the trip's route r qualify for the
\* query: the row is at the resolved stop, the trip's service has an 'added'
\* row for today, and the store compares the departure time as not before the
\* current time.
C16_Qualifies(i, t, r) ==
    /\ store.stop_times[i].stop_id \in resolve_stop(qry.stop_code)
    /\ t.trip_id = store.stop_times[i].trip_id
    /\ r.route_id = t.route_id
    /\ \E cd \in store.calendar_dates :
          cd.service_id = t.service_id /\ cd.date = Today /\ cd.exception_type = 1
    /\ ~TextLess(store.stop_times[i].departure_time, qry.time)

C16_Sources == (DOMAIN store.stop_times) \X store.trips \X store.routes

\* C16: every record returned comes from a stop_times row at the resolved stop
\* whose trip and route exist and whose service is added today; and when fewer
\* than `limit` rows qualify, every qualifying row is returned.
C16_JoinIsExact ==
    DbCallReturned
    => /\ \A k \in DOMAIN qry.rows :
             \E src \in C16_Sources :
                /\ C16_Qualifies(src[1], src[2], src[3])
                /\ qry.rows[k].departure_time = store.stop_times[src[1]].departure_time
                /\ qry.rows[k].arrival_time = store.stop_times[src[1]].arrival_time
                /\ qry.rows[k].trip_headsign = src[2].trip_headsign
                /\ qry.rows[k].trip_short_name = src[2].trip_short_name
                /\ qry.rows[k].route_short_name = src[3].route_short_name
       /\ (Cardinality({src \in C16_Sources : C16_Qualifies(src[1], src[2], src[3])})
              < qry.limit)
          => \A src \in C16_Sources :
                C16_Qualifies(src[1], src[2], src[3])
                => \E k \in DOMAIN qry.rows :
                      /\ qry.rows[k].departure_time = store.stop_times[src[1]].departure_time
                      /\ qry.rows[k].trip_short_name = src[2].trip_short_name
                      /\ qry.rows[k].route_short_name = src[3].route_short_name

\* A call that returned one record while a second row at the stop, of an
\* existing trip and not before the current time, was left out because its
\* service has only a 'removed' row today.
C16_Witness ==
    /\ DbCallReturned
    /\ Len(qry.rows) = 1
    /\ qry.limit = 2
    /\ \E i \in DOMAIN store.stop_times, t \in store.trips :
          /\ store.stop_times[i].stop_id \in resolve_stop(qry.stop_code)
          /\ t.trip_id = store.stop_times[i].trip_id
          /\ ~TextLess(store.stop_times[i].departure_time, qry.time)
          /\ CalendarDate(t.service_id, Today, 2) \in store.calendar_dates
          /\ CalendarDate(t.service_id, Today, 1) \notin store.calendar_dates

\* C17: get_scheduled_departures (of GTFSDatabase and of GTFSParser) returns at
\* most `limit` records in non-decreasing order of departure clock time, and
\* for GTFSDatabase no qualifying departure left out is earlier than a
\* returned one.
C17_EarliestInOrder ==
    (qry.op \in {"db", "parser"} /\ ~qry.raised)
    => /\ Len(qry.rows) <= qry.limit
       /\ \A i, j \in DOMAIN qry.rows :
             i < j => ClockSeconds(qry.rows[i].departure_time)
                        <= ClockSeconds(qry.rows[j].departure_time)
       /\ qry.op = "db"
          => \A id \in resolve_stop(qry.stop_code) :
                \A rec \in Distinct(Joined(id, qry.time, Today)) :
                   (\A k \in DOMAIN qry.rows : qry.rows[k] # rec)
                   => \A k \in DOMAIN qry.rows :
                         ClockSeconds(qry.rows[k].departure_time)
                           <= ClockSeconds(rec.departure_time)

\* C18: no two records returned by GTFSDatabase.get_scheduled_departures have
\* the same departure time, route and headsign.
C18_NoDuplicateDeparture ==
    DbCallReturned
    => \A i, j \in DOMAIN qry.rows :
          i # j => <<qry.rows[i].departure_time, qry.rows[i].route_short_name,
                     qry.rows[i].trip_headsign>>
                   # <<qry.rows[j].departure_time, qry.rows[j].route_short_name,
                       qry.rows[j].trip_headsign>>

\* C19: a call of GTFSDatabase.get_scheduled_departures with an input that,
\* trimmed and lower-cased, is a stored stop code has an outcome of the call
\* with that stored code.
C19_CaseInsensitiveTrimmed ==
    (/\ qry.op = "db"
     /\ \E i \in DOMAIN store.stops : store.stops[i].stop_code = lower(strip(qry.stop_code)))
    => [raised |-> qry.raised, rows |-> qry.rows]
          \in Db_get_scheduled_departures(lower(strip(qry.stop_code)), qry.limit, qry.time)

\* The API's connection is open on a gtfs.db that holds the tables.
OpenStore ==
    conn["api"].open /\ StoreOf(conn["api"]).state \in {"schema", "full"}

SearchReturned ==
    /\ qry.op \in {"search", "parser_search"}
    /\ ~qry.raised
    /\ qry.op = "search" => resp.status = 200

\* C21: every stop that search_stops(query, limit) returns, for a query of 2
\* to 100 characters as the HTTP layer lets through, '%' and '_' included,
\* has a name that contains the query literally, letter case aside; and at
\* most limit stops are returned.
C21_LiteralSubstring ==
    SearchReturned =>
        /\ Len(qry.rows) <= qry.limit
        /\ \A i \in DOMAIN qry.rows :
              contains(lower(qry.rows[i].stop_name), lower(qry.stop_code))

\* Whether returned stop i has a name that starts with the query, case aside.
StartsWithQuery(i) == startswith(lower(qry.rows[i].stop_name), lower(qry.stop_code))

\* C22: the stops search_stops returns are in the order of the key (name does
\* not start with the query, name): a stop whose name starts with the query
\* comes before every stop whose name only contains it, and within each group
\* the names are in alphabetical order.
C22_RankedOrder ==
    SearchReturned =>
        \A i, j \in DOMAIN qry.rows :
            i < j =>
                /\ StartsWithQuery(j) => StartsWithQuery(i)
                /\ (StartsWithQuery(i) = StartsWithQuery(j)) =>
                      ~TextLess(qry.rows[j].stop_name, qry.rows[i].stop_name)

\* C23: for every stop search_stops returns, has_schedule is true exactly when
\* the loaded data holds a scheduled-time row whose stop is that stop.
C23_HasScheduleIffRows ==
    SearchReturned =>
        \A i \in DOMAIN qry.rows :
            \E j \in DOMAIN store.stops :
                /\ store.stops[j].stop_code = qry.rows[i].stop_code
                /\ store.stops[j].stop_name = qry.rows[i].stop_name
                /\ qry.rows[i].has_schedule <=>
                      \E k \in DOMAIN store.stop_times :
                          store.stop_times[k].stop_id = store.stops[j].stop_id

\* A search of the handler returned a stop with rows and a stop without, from
\* a store that holds rows.
C23_Witness ==
    /\ SearchReturned
    /\ qry.op = "search"
    /\ \E i, j \in DOMAIN qry.rows : qry.rows[i].has_schedule /\ ~qry.rows[j].has_schedule

\* A call of find_nearby_stops returned; qry.time holds its radius in metres.
NearbyReturned == qry.op = "parser_nearby"

\* C24: find_nearby_stops(lat, lon, radius, limit) returns at most limit
\* stops; no returned stop lies farther from the point than radius, neither
\* by its distance nor by the rounded distance_meters reported; and the
\* reported distances never decrease along the output.
C24_NearbyWithinRadiusSorted ==
    NearbyReturned =>
        /\ Len(qry.rows) <= qry.limit
        /\ \A i \in DOMAIN qry.rows :
              /\ qry.rows[i].distance_meters <= qry.time
              /\ \E j \in DOMAIN store.stops :
                    /\ store.stops[j].stop_code = qry.rows[i].stop_code
                    /\ store.stops[j].distance <= qry.time * 10
        /\ \A i, j \in DOMAIN qry.rows :
              i < j => qry.rows[i].distance_meters <= qry.rows[j].distance_meters

\* A call returned `limit` stops, one of them at a rounded distance equal to
\* the radius, and left out a stop that lies beyond the radius.
C24_Witness ==
    /\ NearbyReturned
    /\ Len(qry.rows) = qry.limit
    /\ \E i \in DOMAIN qry.rows : qry.rows[i].distance_meters = qry.time
    /\ \E j \in DOMAIN store.stops : store.stops[j].distance > qry.time * 10

\* C25: the store handle of the HTTP layer has all four query operations:
\* with the store loaded, a valid /api/stops/nearby request is answered 200
\* with the stops within the radius, not with an error.
C25_NearbyAnswers200 ==
    [][(/\ resp' # resp
        /\ resp'.ep = "nearby"
        /\ gtfs_parser
        /\ conn["api"].open
        /\ StoreOf(conn["api"]).state = "full")
       => resp'.status = 200]_vars

\* C26: on an open store get_stats never fails; stops_with_schedule is the
\* number of stops of the stop table with at least one scheduled time, so it
\* is at most stops_count, coverage_percent lies between 0 and 100, and
\* coverage_percent is 0 when there are no stops. (coverage_percent is held
\* in tenths of a percent.)
C26_StatsWithinBounds ==
    (qry.op = "stats" /\ OpenStore) =>
        /\ ~qry.raised
        /\ LET stats == qry.rows[1]
           IN /\ stats.stops_with_schedule =
                    Cardinality({j \in DOMAIN store.stops :
                                    \E k \in DOMAIN store.stop_times :
                                        store.stop_times[k].stop_id = store.stops[j].stop_id})
              /\ stats.stops_with_schedule <= stats.stops_count
              /\ 0 <= stats.coverage_percent /\ stats.coverage_percent <= 1000
              /\ stats.stops_count = 0 => stats.coverage_percent = 0

\* C27: load_data is idempotent: a second call in a row, with no upstream
\* change and within the cache lifetime (so it sends no request), leaves the
\* archive, the metadata and the loaded store as the first call left them,
\* and every query answers as before.
C27_LoadDataIdempotent ==
    [][(/\ pPc = "ok" /\ pPc' = "loaded"
        /\ pReq = 0
        /\ pIndex # <<>>)
       => /\ archive' = archive
          /\ meta' = meta
          /\ pIndex' = pIndex]_vars

\* C28: the refresh never runs concurrently with itself on one data
\* directory: a second trigger that arrives while one is in flight is a no-op
\* or waits, so two executions of _build_database never overlap.
C28_BuildsNeverOverlap == ~(Building("api") /\ Building("cron"))

\* C29: in every state the application can be in (store loaded, load never
\* attempted, load failed part-way), GET /health and GET / are answered with
\* status 200 or 503 and a JSON body, which for /health has a "status" key.
C29_StatusPagesAnswer200Or503 ==
    resp.ep \in {"root", "health"} => resp.status \in {200, 503}

C31_RowsReferenceStopAndTrip ==
    qry.op = "rebuild" =>
        \A k \in DOMAIN store.stop_times :
            /\ \E j \in DOMAIN store.stops :
                  store.stops[j].stop_id = store.stop_times[k].stop_id
            /\ \E t \in store.trips : t.trip_id = store.stop_times[k].trip_id

C33_DistanceZeroAndSymmetric ==
    qry.op = "distance" =>
        /\ qry.rows[1] = qry.rows[2]
        /\ (qry.stop_code[1] = qry.stop_code[3] /\ qry.stop_code[2] = qry.stop_code[4])
              => qry.rows[1] = 0

\* The distance between two points of different latitude and longitude, none
\* of them on the equator or at a pole, was computed both ways.
C33_Witness ==
    /\ qry.op = "distance"
    /\ qry.stop_code[1] \notin {qry.stop_code[3], 0 - qry.stop_code[3], 0, 90, -90}
    /\ qry.stop_code[3] \notin {0, 90, -90}
    /\ qry.stop_code[2] # qry.stop_code[4]
    /\ qry.rows[1] > 0

\* C34: during a build an absent numeric column defaults to zero and an
\* absent text column to the empty string, for every numeric column loaded
\* (stop_lat, stop_lon, route_type, stop_sequence, direction_id,
\* exception_type); a value that is present but empty or not numeric in a
\* numeric column makes the build fail instead of loading a default.
C34_DefaultsAndHardFailures ==
    qry.op = "field" =>
        LET column == qry.rows[1].column
            field == qry.rows[1].field
        IN /\ field = <<>> =>
                /\ ~qry.raised
                /\ column \in TextColumns => qry.rows[1].value = <<>>
                /\ column \notin TextColumns => qry.rows[1].value = 0
           /\ (/\ column \notin TextColumns
               /\ field # <<>>
               /\ \A i \in DOMAIN field[1] : field[1][i] \notin 48..57)
                => qry.raised

\* C35: after a _build_database that aborted with an error the store counts
\* as stale: the next load_data runs the build again and does not take the
\* gtfs.db left behind by the failed build (tables without rows, no build
\* running) for a current store to connect to.
C35_AbortedBuildIsRebuilt ==
    [][\A p \in Procs :
          (/\ pc[p] = "checkdb" /\ pc'[p] # "checkdb"
           /\ db.state = "schema"
           /\ \A q \in Procs : ~Building(q))
          => pc'[p] = "unlink"]_vars

\* C36: when the body stream of a 200 response fails part-way through
\* _download_gtfs, the archive of before is kept or the file left on disk is
\* not fresh for _is_cache_expired (so the next load_data downloads again),
\* and the stored revalidation tokens still describe the archive on disk.
C36_PartialDownloadNotFresh ==
    [][\A p \in Procs :
          (/\ pc[p] = "load" /\ pc'[p] # "load"
           /\ fetched'[p] = 200 /\ loadErr'[p] = "download")
          => /\ archive' = archive \/ (_is_cache_expired)'
             /\ meta'.etag # 0 => meta'.etag = archive'.feed
             /\ meta'.lastmod # 0 => meta'.lastmod = archive'.feed]_vars

\* C37: conditional headers go out only when the archive they describe is on
\* disk: from a data directory with the metadata file and without the
\* archive, repeated load_data calls against the revalidating server
\* eventually end with the archive present and a complete store in gtfs.db.
C37_MissingArchiveIsFetched ==
    (meta.exists /\ ~archive.exists) ~> (archive.exists /\ db.state = "full")

\* Whether a stop of the loaded feed is among the stops returned.
SearchLeftOut(stop) ==
    /\ contains(lower(stop.stop_name), lower(qry.stop_code))
    /\ \A i \in DOMAIN qry.rows :
          ~(qry.rows[i].stop_code = stop.stop_code /\ qry.rows[i].stop_name = stop.stop_name)

\* C38: search_stops(query, limit) returns the best-ranked matches: no stop
\* whose name contains the query and that was left out of the result ranks
\* ahead of a returned stop by the key (name does not start with the query,
\* name).
C38_BestRankedReturned ==
    SearchReturned =>
        \A k \in DOMAIN store.stops, i \in DOMAIN qry.rows :
            SearchLeftOut(store.stops[k]) =>
                ~Parser_search_key(lower(qry.stop_code), store.stops[k], qry.rows[i])

\* An answer of the departures handler for a stop area code that the lookup
\* resolved to several timing point codes.
SeveralTimingPoints ==
    /\ qry.op = "handler" /\ ~qry.raised /\ resp.status = 200
    /\ Len(qry.resolved_codes) >= 2

\* The qualifying departures of the timing points the handler resolved to.
TimingPointDepartures ==
    UNION {Distinct(Joined(id, qry.time, Today)) :
             id \in UNION {resolve_stop(qry.resolved_codes[c]) : c \in DOMAIN qry.resolved_codes}}

\* C39: when the departures handler resolves a stop area code to several
\* timing point codes, the response holds at most `limit` departures in
\* non-decreasing order of departure clock time, and no qualifying departure
\* of any of the timing points that was left out is earlier than a returned
\* one.
C39_MergedEarliestInOrder ==
    SeveralTimingPoints =>
        /\ Len(qry.rows) <= qry.limit
        /\ \A i, j \in DOMAIN qry.rows :
              i < j => ClockSeconds(qry.rows[i].departure_time)
                         <= ClockSeconds(qry.rows[j].departure_time)
        /\ \A rec \in TimingPointDepartures :
              (\A k \in DOMAIN qry.rows : qry.rows[k] # rec)
              => \A k \in DOMAIN qry.rows :
                    ClockSeconds(qry.rows[k].departure_time)
                      <= ClockSeconds(rec.departure_time)
====
